---- MODULE Spec2Model ----
(***************************************************************************)
(* Treasury analytics tools of agents-starter (src/src/tools.ts): the date *)
(* helpers, the cashflow schedule builder, and the four server-side tool   *)
(* executions (calculateTreasuryAnalytics, fitNssCurve,                    *)
(* analyzeBondsWithNss, analyzeCusipWithNss) over the D1 data store.       *)
(*                                                                         *)
(* A JavaScript Date is modelled by its time value: an integer number of   *)
(* ticks since 1970-01-01T00:00Z (TicksPerDay ticks a day), or NaN for an  *)
(* Invalid Date.  The worker runs in UTC, so the local-time getters        *)
(* (getFullYear, getMonth, getDate, getDay) read the UTC calendar.         *)
(***************************************************************************)
EXTENDS Integers, Sequences, FiniteSets, TLC

VARIABLES
    call,        \* pure-function harness: the helper called and its arguments
    ret,         \* pure-function harness: <<>> while pending, <<value>> once returned
    priceTable,  \* D1 table nov18_treasury_securities: CUSIP -> <<>> or <<"END OF DAY" price>>
    secTable,    \* D1 table additional_data_new: CUSIP -> <<>> or <<security row>>
    now,         \* the wall clock read by new Date()
    pc,          \* where the tool execution in flight stands: idle, ctaWalk, ctaAdvance, abReprice, acPrice, done
    req,         \* the tool execution in flight: [op, cusip]
    frame,       \* its local variables, kept across its steps
    result,      \* <<>> while it runs, <<value>> once it has returned or thrown
    queries,     \* the D1 queries it has issued, in order ("... failed": the query threw)
    optimizerRuns \* how many times it has invoked nelderMead

harnessVars == <<call, ret>>
dbVars == <<priceTable, secTable>>
serverVars == <<priceTable, secTable, now, pc, req, frame, result, queries, optimizerRuns>>
vars == <<call, ret, priceTable, secTable, now, pc, req, frame, result, queries, optimizerRuns>>

(***************************************************************************)
(* Bounds of the model.                                                    *)
(***************************************************************************)
TicksPerDay == 2      \* resolution of the time of day
YearsBack == 2        \* calendar years before the curve year that inputs range over
YearsAhead == 1       \* calendar years after the curve year that inputs range over
MaxMonths == 12       \* largest |months| handed to addMonthsEOM by the harness
MaxClock == 4         \* ticks the wall clock may advance past its start
BracketDays == 20     \* days of wall-clock values the bracket check ranges over

(***************************************************************************)
(* JavaScript Date arithmetic (ECMAScript MakeDay / YearFromTime).         *)
(***************************************************************************)
NaN == -1000000000

CurveYear == 2025
CurveMonth == 10
CurveDay == 19

IsLeap(y) == (y % 4 = 0 /\ y % 100 # 0) \/ y % 400 = 0

\* days from 1970-01-01 to the first day of year y
DayFromYear(y) ==
    365 * (y - 1970) + ((y - 1969) \div 4) - ((y - 1901) \div 100) + ((y - 1601) \div 400)

MonthLengths(y) ==
    <<31, IF IsLeap(y) THEN 29 ELSE 28, 31, 30, 31, 30, 31, 31, 30, 31, 30, 31>>

\* days of year y before its zero-based month m
DaysBeforeMonth(y, m) ==
    <<0, 31, 59, 90, 120, 151, 181, 212, 243, 273, 304, 334>>[m + 1]
        + (IF m >= 2 /\ IsLeap(y) THEN 1 ELSE 0)

\* MakeDay(year, month, date): month is zero-based and may lie outside 0..11,
\* date may lie outside the month (it overflows into the neighbouring months)
MakeDay(y, m, d) ==
    LET yy == y + (m \div 12)
        mm == m % 12
    IN  DayFromYear(yy) + DaysBeforeMonth(yy, mm) + d - 1

DayOf(t) == t \div TicksPerDay
TimeOfDay(t) == t % TicksPerDay

\* the calendar date of day number n (days since 1970-01-01), month zero-based:
\* era, day of era, year of era, day of year and month, one after the other
CivilMonth(mp) == IF mp < 10 THEN mp + 2 ELSE mp - 10

CivilOfMonth(y, doy, mp) ==
    [y |-> y + (IF CivilMonth(mp) <= 1 THEN 1 ELSE 0),
     m |-> CivilMonth(mp),
     d |-> doy - ((153 * mp + 2) \div 5) + 1]

CivilOfDoy(y, doy) == CivilOfMonth(y, doy, (5 * doy + 2) \div 153)

CivilOfYoe(era, doe, yoe) ==
    CivilOfDoy(yoe + era * 400, doe - (365 * yoe + (yoe \div 4) - (yoe \div 100)))

CivilOfDoe(era, doe) ==
    CivilOfYoe(era, doe,
               (doe - (doe \div 1460) + (doe \div 36524) - (doe \div 146096)) \div 365)

CivilOfEra(z, era) == CivilOfDoe(era, z - era * 146097)

Civil(n) == CivilOfEra(n + 719468, (n + 719468) \div 146097)

getFullYear(t) == Civil(DayOf(t)).y
getMonth(t) == Civil(DayOf(t)).m
getDate(t) == Civil(DayOf(t)).d

\* 1970-01-01 was a Thursday (4); 0 = Sunday, 6 = Saturday
getDay(t) == (DayOf(t) + 4) % 7

\* new Date(year, month, day) at midnight
DateOf(y, m, d) == MakeDay(y, m, d) * TicksPerDay

\* Date.prototype.setMonth(m): same year, day of month and time of day
setMonth(t, m) ==
    LET c == Civil(DayOf(t))
    IN  MakeDay(c.y, m, c.d) * TicksPerDay + TimeOfDay(t)

\* Date.prototype.setDate(d): same year, month and time of day
setDate(t, d) ==
    LET c == Civil(DayOf(t))
    IN  MakeDay(c.y, c.m, d) * TicksPerDay + TimeOfDay(t)

\* relational operators on Dates: every comparison with an Invalid Date is false
DateLE(a, b) == a # NaN /\ b # NaN /\ a <= b
DateGT(a, b) == a # NaN /\ b # NaN /\ a > b
DateEQ(a, b) == a # NaN /\ b # NaN /\ a = b

(***************************************************************************)
(* Bond / date helpers.                                                    *)
(***************************************************************************)
CURVE_DATE == DateOf(CurveYear, CurveMonth, CurveDay)

daysInMonth(year, monthZeroBased) ==
    getDate(DateOf(year, monthZeroBased + 1, 0))

addMonthsEOM(d, months) ==
    IF d = NaN THEN NaN
    ELSE LET year == getFullYear(d)
             month == getMonth(d)
             day == getDate(d)
             dim == daysInMonth(year, month)
             isEOM == day = dim
             nd == setMonth(d, month + months)
         IN  IF isEOM
             THEN setDate(nd, daysInMonth(getFullYear(nd), getMonth(nd)))
             ELSE nd

\* the weekend loop skipping Saturdays only
RECURSIVE SkipSaturday(_)
SkipSaturday(nd) ==
    IF getDay(nd) = 6 THEN SkipSaturday(setDate(nd, getDate(nd) + 1)) ELSE nd

nextBusinessDaySaturdayOnly(d) == SkipSaturday(setDate(d, getDate(d) + 1))

\* Next business day (weekend-aware): lines 90-93
RECURSIVE SkipWeekend(_)
SkipWeekend(nd) ==
    IF getDay(nd) = 0 \/ getDay(nd) = 6
    THEN SkipWeekend(setDate(nd, getDate(nd) + 1))
    ELSE nd

nextBusinessDay(d) == SkipWeekend(setDate(d, getDate(d) + 1))

(***************************************************************************)
(* Text.  A string is a sequence of one-character strings; null and the    *)
(* empty string are both <<>> (the code reads them through `|| ""`).       *)
(* A date string is a record [y, m, d] of the digits of "YYYY-MM-DD".      *)
(***************************************************************************)
UpperToLower ==
    [c \in {"A", "B", "C", "D", "E", "F", "G", "H", "I", "J", "K", "L", "M",
            "N", "O", "P", "Q", "R", "S", "T", "U", "V", "W", "X", "Y", "Z"} |->
        CASE c = "A" -> "a" [] c = "B" -> "b" [] c = "C" -> "c" [] c = "D" -> "d"
          [] c = "E" -> "e" [] c = "F" -> "f" [] c = "G" -> "g" [] c = "H" -> "h"
          [] c = "I" -> "i" [] c = "J" -> "j" [] c = "K" -> "k" [] c = "L" -> "l"
          [] c = "M" -> "m" [] c = "N" -> "n" [] c = "O" -> "o" [] c = "P" -> "p"
          [] c = "Q" -> "q" [] c = "R" -> "r" [] c = "S" -> "s" [] c = "T" -> "t"
          [] c = "U" -> "u" [] c = "V" -> "v" [] c = "W" -> "w" [] c = "X" -> "x"
          [] c = "Y" -> "y" [] c = "Z" -> "z"]

toLowerCase(s) ==
    [i \in 1 .. Len(s) |-> IF s[i] \in DOMAIN UpperToLower THEN UpperToLower[s[i]] ELSE s[i]]

includes(s, sub) ==
    \E i \in 1 .. (Len(s) - Len(sub) + 1) : SubSeq(s, i, i + Len(sub) - 1) = sub

\* new Date("YYYY-MM-DD"): midnight UTC of a calendar date, Invalid Date otherwise
parseISODate(s) ==
    IF s.m \in 1 .. 12 /\ s.d >= 1 /\ s.d <= MonthLengths(s.y)[s.m]
    THEN DateOf(s.y, s.m - 1, s.d)
    ELSE NaN

\* toISOString().slice(0, 10): <<"YYYY-MM-DD">>, or <<>> when toISOString throws
\* a RangeError (Invalid Date)
toISOString(t) ==
    IF t = NaN THEN <<>>
    ELSE <<[y |-> getFullYear(t), m |-> getMonth(t) + 1, d |-> getDate(t)]>>

(***************************************************************************)
(* Numbers.  Prices, rates and day counts are JavaScript numbers; the      *)
(* model computes with exact rationals [n, d] in lowest terms (d > 0), so  *)
(* the arithmetic is that of the code without floating-point rounding.     *)
(***************************************************************************)
Abs(x) == IF x < 0 THEN 0 - x ELSE x

RECURSIVE GCD(_, _)
GCD(a, b) == IF b = 0 THEN a ELSE GCD(b, a % b)

Rat(n, d) ==
    LET s == IF d < 0 THEN 0 - 1 ELSE 1
        g == GCD(Abs(n), Abs(d))
    IN  [n |-> (s * n) \div g, d |-> (s * d) \div g]

RatInt(k) == [n |-> k, d |-> 1]
RatAdd(a, b) ==
    LET g == GCD(a.d, b.d)
    IN  Rat(a.n * (b.d \div g) + b.n * (a.d \div g), (a.d \div g) * b.d)
RatSub(a, b) == RatAdd(a, [n |-> 0 - b.n, d |-> b.d])
RatMul(a, b) == Rat(a.n * b.n, a.d * b.d)
RatDiv(a, b) == Rat(a.n * b.d, a.d * b.n)
RatLE(a, b) == a.n * b.d <= b.n * a.d
RatLT(a, b) == a.n * b.d < b.n * a.d

faceValue == 100

\* DAYS_IN_YEAR = 365.25 = 1461 / 4
DAYS_IN_YEAR == Rat(1461, 4)

\* daysBetween(a, b) = (b - a) ms / 86400000, a possibly fractional number of days
daysBetween(a, b) == Rat(b - a, TicksPerDay)

\* the rule table with the 'annual' rule tried before 'semi' and 'quarter'
getFrequencyAnnualFirst(securityType, InterestPaymentFrequency, interestRate) ==
    LET typeLower == toLowerCase(securityType)
        freqLower == toLowerCase(InterestPaymentFrequency)
    IN  IF \/ includes(typeLower, <<"b", "i", "l", "l">>)
           \/ includes(freqLower, <<"n", "o", "n", "e">>)
           \/ interestRate = RatInt(0)
        THEN [frequency |-> 0, isBill |-> TRUE]
        ELSE IF \/ includes(freqLower, <<"a", "n", "n", "u", "a", "l">>)
                \/ includes(freqLower, <<"y", "e", "a", "r">>)
        THEN [frequency |-> 1, isBill |-> FALSE]
        ELSE IF includes(freqLower, <<"s", "e", "m", "i">>)
        THEN [frequency |-> 2, isBill |-> FALSE]
        ELSE IF includes(freqLower, <<"q", "u", "a", "r", "t", "e", "r">>)
        THEN [frequency |-> 4, isBill |-> FALSE]
        ELSE [frequency |-> 2, isBill |-> FALSE]

\* interestRate is the rate after `?? 0`
getFrequencyPerYear(securityType, InterestPaymentFrequency, interestRate) ==
    LET typeLower == toLowerCase(securityType)
        freqLower == toLowerCase(InterestPaymentFrequency)
    IN  IF \/ includes(typeLower, <<"b", "i", "l", "l">>)
           \/ includes(freqLower, <<"n", "o", "n", "e">>)
           \/ interestRate = RatInt(0)
        THEN [frequency |-> 0, isBill |-> TRUE]
        ELSE IF includes(freqLower, <<"s", "e", "m", "i">>)
        THEN [frequency |-> 2, isBill |-> FALSE]
        ELSE IF includes(freqLower, <<"q", "u", "a", "r", "t", "e", "r">>)
        THEN [frequency |-> 4, isBill |-> FALSE]
        ELSE IF \/ includes(freqLower, <<"a", "n", "n", "u", "a", "l">>)
                \/ includes(freqLower, <<"y", "e", "a", "r">>)
        THEN [frequency |-> 1, isBill |-> FALSE]
        ELSE IF \/ includes(typeLower, <<"n", "o", "t", "e">>)
                \/ includes(typeLower, <<"b", "o", "n", "d">>)
        THEN [frequency |-> 2, isBill |-> FALSE]
        ELSE [frequency |-> 2, isBill |-> FALSE]

(***************************************************************************)
(* Cashflow schedule.  An optional Date is <<>> (null) or <<t>>.           *)
(***************************************************************************)
\* lines 141-150: walk back from maturity while the previous period start is
\* after CURVE_DATE (and after 1970-01-01); d is a valid Date
RECURSIVE FirstCouponFromMaturity(_, _)
FirstCouponFromMaturity(d, monthsPerPeriod) ==
    LET prev == addMonthsEOM(d, 0 - monthsPerPeriod)
    IN  IF DateLE(prev, CURVE_DATE) \/ DateLE(prev, DateOf(1970, 0, 1))
        THEN d
        ELSE FirstCouponFromMaturity(prev, monthsPerPeriod)

firstCouponDate(maturityDate, monthsPerPeriod, datedDate, firstInterestPaymentDate) ==
    IF firstInterestPaymentDate # <<>> THEN firstInterestPaymentDate[1]
    ELSE IF datedDate # <<>> THEN addMonthsEOM(datedDate[1], monthsPerPeriod)
    ELSE FirstCouponFromMaturity(maturityDate, monthsPerPeriod)

\* the date filter of line 158 dropped: every date up to maturity is emitted
RECURSIVE GenerateCashflowsUnfiltered(_, _, _, _, _)
GenerateCashflowsUnfiltered(cfDate, curveDate, maturityDate, couponPerPeriod, monthsPerPeriod) ==
    IF ~DateLE(cfDate, maturityDate) THEN <<>>
    ELSE <<[date |-> cfDate,
            tYears |-> RatDiv(daysBetween(curveDate, cfDate), DAYS_IN_YEAR),
            amount |-> couponPerPeriod]>>
         \o GenerateCashflowsUnfiltered(addMonthsEOM(cfDate, monthsPerPeriod), curveDate,
                                        maturityDate, couponPerPeriod, monthsPerPeriod)

\* lines 155-167: the generation loop, from cfDate on
RECURSIVE GenerateCashflows(_, _, _, _, _)
GenerateCashflows(cfDate, curveDate, maturityDate, couponPerPeriod, monthsPerPeriod) ==
    IF ~DateLE(cfDate, maturityDate) THEN <<>>
    ELSE LET amount == IF DateEQ(cfDate, maturityDate)
                       THEN RatAdd(couponPerPeriod, RatInt(faceValue))
                       ELSE couponPerPeriod
             emitted == IF DateGT(cfDate, curveDate)
                        THEN <<[date |-> cfDate,
                                tYears |-> RatDiv(daysBetween(curveDate, cfDate), DAYS_IN_YEAR),
                                amount |-> amount]>>
                        ELSE <<>>
         IN  emitted \o GenerateCashflows(addMonthsEOM(cfDate, monthsPerPeriod), curveDate,
                                          maturityDate, couponPerPeriod, monthsPerPeriod)

\* interestRatePercent is a rational number of percent
CouponPerPeriod(interestRatePercent, frequencyPerYear) ==
    RatDiv(RatMul(RatInt(faceValue), RatDiv(interestRatePercent, RatInt(100))),
           RatInt(frequencyPerYear))

buildCashflowsForSecurity(params) ==
    LET couponPerPeriod == CouponPerPeriod(params.interestRatePercent, params.frequencyPerYear)
        monthsPerPeriod == 12 \div params.frequencyPerYear
        first == firstCouponDate(params.maturityDate, monthsPerPeriod,
                                 params.datedDate, params.firstInterestPaymentDate)
    IN  GenerateCashflows(first, params.curveDate, params.maturityDate,
                          couponPerPeriod, monthsPerPeriod)

(***************************************************************************)
(* Input domains.                                                          *)
(***************************************************************************)
Years == (CurveYear - YearsBack) .. (CurveYear + YearsAhead)

ValidYMD ==
    { c \in Years \X (0 .. 11) \X (1 .. 31) : c[3] <= MonthLengths(c[1])[c[2] + 1] }

AllDates == { DateOf(c[1], c[2], c[3]) : c \in ValidYMD }

MonthSteps == (0 - MaxMonths) .. MaxMonths

Cusips == {"c1", "c2"}

\* the server at rest, with an empty data store
ServerIdle ==
    /\ priceTable = [c \in Cusips |-> <<>>]
    /\ secTable = [c \in Cusips |-> <<>>]
    /\ now = CURVE_DATE
    /\ pc = "idle"
    /\ req = <<>>
    /\ frame = <<>>
    /\ result = <<>>
    /\ queries = <<>>
    /\ optimizerRuns = 0

HarnessIdle == call = [fn |-> "none"] /\ ret = <<>>

(***************************************************************************)
(* Harness for addMonthsEOM.                                               *)
(***************************************************************************)
InitEOM ==
    /\ call \in [fn : {"addMonthsEOM"}, d : AllDates, months : MonthSteps \ {0}]
    /\ ret = <<>>
    /\ ServerIdle

CallAddMonthsEOM ==
    /\ call.fn = "addMonthsEOM"
    /\ ret = <<>>
    /\ ret' = <<addMonthsEOM(call.d, call.months)>>
    /\ UNCHANGED <<call, serverVars>>

NextEOM == CallAddMonthsEOM

(***************************************************************************)
(* Harness for buildCashflowsForSecurity.                                  *)
(***************************************************************************)
\* coupon-style days of a month: mid-month and the days around the month's end
ScheduleDays == {15, 28, 29, 30, 31}

ScheduleDates(years, months) ==
    { DateOf(c[1], c[2], c[3]) :
        c \in { x \in ValidYMD : x[1] \in years /\ x[2] \in months /\ x[3] \in ScheduleDays } }

MaturityDates == ScheduleDates(CurveYear .. (CurveYear + YearsAhead), 0 .. 11)

AnchorDates == ScheduleDates((CurveYear - 1) .. CurveYear, {1, 7})

Anchors ==
    { <<dd, fd>> \in ({<<>>} \cup { <<t>> : t \in AnchorDates })
                     \X ({<<>>} \cup { <<t>> : t \in AnchorDates }) :
        dd = <<>> \/ fd = <<>> \/ dd = <<DateOf(CurveYear - 1, 1, 29)>> }

Frequencies == {1, 2, 4}

InitCashflows ==
    /\ \E a \in Anchors, mat \in MaturityDates, freq \in Frequencies,
          cd \in {CURVE_DATE, CURVE_DATE + 1}, rate \in {Rat(17, 4)} :
          call = [fn |-> "buildCashflowsForSecurity",
                  curveDate |-> cd,
                  maturityDate |-> mat,
                  interestRatePercent |-> rate,
                  frequencyPerYear |-> freq,
                  datedDate |-> a[1],
                  firstInterestPaymentDate |-> a[2]]
    /\ ret = <<>>
    /\ ServerIdle

CallBuildCashflows ==
    /\ call.fn = "buildCashflowsForSecurity"
    /\ ret = <<>>
    /\ ret' = <<buildCashflowsForSecurity(call)>>
    /\ UNCHANGED <<call, serverVars>>

NextCashflows == CallBuildCashflows

SpecCashflows == InitCashflows /\ [][NextCashflows]_vars

SpecEOM == InitEOM /\ [][NextEOM]_vars

(***************************************************************************)
(* Harness for getFrequencyPerYear.  A null text is <<>>.                  *)
(***************************************************************************)
TypeTexts ==
    { <<>>,
      <<"B", "i", "l", "l">>,
      <<"B", "I", "L", "L">>,
      <<"T", "-", "b", "i", "l", "l">>,
      <<"N", "o", "t", "e">>,
      <<"N", "O", "T", "E">>,
      <<"B", "o", "n", "d">>,
      <<"F", "R", "N">> }

FrequencyTexts ==
    { <<>>,
      <<"S", "e", "m", "i", "-", "A", "n", "n", "u", "a", "l">>,
      <<"S", "E", "M", "I", "-", "A", "N", "N", "U", "A", "L">>,
      <<"Q", "u", "a", "r", "t", "e", "r", "l", "y">>,
      <<"q", "u", "a", "r", "t", "e", "r", "/", "s", "e", "m", "i">>,
      <<"A", "n", "n", "u", "a", "l">>,
      <<"Y", "E", "A", "R", "L", "Y">>,
      <<"y", "e", "a", "r", "/", "q", "u", "a", "r", "t", "e", "r">>,
      <<"N", "o", "n", "e">>,
      <<"N", "O", "N", "E">>,
      <<"n", "o", "n", "e", "/", "s", "e", "m", "i">>,
      <<"a", "n", "n", "u", "a", "l", "/", "n", "o", "n", "e">>,
      <<"M", "o", "n", "t", "h", "l", "y">> }

CouponRates == {RatInt(0), Rat(17, 4)}

InitFrequency ==
    /\ call \in [fn : {"getFrequencyPerYear"}, securityType : TypeTexts,
                 InterestPaymentFrequency : FrequencyTexts, interestRate : CouponRates]
    /\ ret = <<>>
    /\ ServerIdle

CallGetFrequencyPerYear ==
    /\ call.fn = "getFrequencyPerYear"
    /\ ret = <<>>
    /\ ret' = <<getFrequencyPerYear(call.securityType, call.InterestPaymentFrequency,
                                    call.interestRate)>>
    /\ UNCHANGED <<call, serverVars>>

NextFrequency == CallGetFrequencyPerYear

SpecFrequency == InitFrequency /\ [][NextFrequency]_vars

(***************************************************************************)
(* Harness for nextBusinessDay: any instant of any day.                    *)
(***************************************************************************)
AllInstants == { t + k : t \in AllDates, k \in 0 .. (TicksPerDay - 1) }

InitBusinessDay ==
    /\ call \in [fn : {"nextBusinessDay"}, d : AllInstants]
    /\ ret = <<>>
    /\ ServerIdle

CallNextBusinessDay ==
    /\ call.fn = "nextBusinessDay"
    /\ ret = <<>>
    /\ ret' = <<nextBusinessDay(call.d)>>
    /\ UNCHANGED <<call, serverVars>>

NextBusinessDay == CallNextBusinessDay

SpecBusinessDay == InitBusinessDay /\ [][NextBusinessDay]_vars

(***************************************************************************)
(* The data store and the results of the tool executions.                  *)
(***************************************************************************)
ISO(y, m, d) == [y |-> y, m |-> m, d |-> d]

\* a date string that is no date
Malformed == ISO(0, 0, 0)

SecRow(type, freq, rate, maturity, dated, first) ==
    [SecurityType |-> type, InterestPaymentFrequency |-> freq, InterestRate |-> rate,
     MaturityDate |-> maturity, DatedDate |-> dated, FirstInterestPaymentDate |-> first]

TxtBill == <<"B", "i", "l", "l">>
TxtNote == <<"N", "o", "t", "e">>
TxtBond == <<"B", "o", "n", "d">>
TxtSemi == <<"S", "e", "m", "i", "-", "A", "n", "n", "u", "a", "l">>
TxtQuarterly == <<"Q", "u", "a", "r", "t", "e", "r", "l", "y">>
TxtAnnual == <<"A", "n", "n", "u", "a", "l">>
TxtNone == <<"N", "o", "n", "e">>

\* the security rows the data store may hold
Catalogue ==
    { \* a bill, no coupon rate
      SecRow(TxtBill, TxtNone, <<>>, ISO(CurveYear + 1, 2, 19), <<ISO(CurveYear, 2, 20)>>, <<>>),
      \* a mid-month semi-annual note
      SecRow(TxtNote, TxtSemi, <<Rat(17, 4)>>, ISO(CurveYear + 1, 8, 15),
             <<ISO(CurveYear - 1, 8, 15)>>, <<ISO(CurveYear, 2, 15)>>),
      \* a month-end quarterly note
      SecRow(TxtNote, TxtQuarterly, <<RatInt(4)>>, ISO(CurveYear + 1, 5, 31),
             <<ISO(CurveYear - 1, 5, 31)>>, <<>>),
      \* a note that matured before the curve date
      SecRow(TxtNote, TxtAnnual, <<RatInt(3)>>, ISO(CurveYear, 8, 15),
             <<ISO(CurveYear - 2, 8, 15)>>, <<>>),
      \* a zero-coupon bond
      SecRow(TxtBond, <<>>, <<RatInt(0)>>, ISO(CurveYear + 1, 11, 15),
             <<ISO(CurveYear - 1, 11, 15)>>, <<>>),
      \* a note whose maturity date string is malformed
      SecRow(TxtNote, TxtSemi, <<RatInt(4)>>, Malformed, <<ISO(CurveYear - 1, 8, 15)>>, <<>>) }

Prices == {Rat(197, 2)}

PriceRows == {<<>>} \cup { <<x>> : x \in Prices }
SecRows == {<<>>} \cup { <<r>> : r \in Catalogue }

ErrInternal == [kind |-> "error", error |-> "internal analytics error"]
\* the price miss reported with the security table's message
ErrNoPriceWrongTable(cusip) ==
    [kind |-> "error", error |-> "no security record", cusip |-> cusip]

ErrNoPrice(cusip) == [kind |-> "error", error |-> "no price record", cusip |-> cusip]
ErrNoSecurity(cusip) == [kind |-> "error", error |-> "no security record", cusip |-> cusip]
ErrNoBonds == [kind |-> "error", error |-> "no bonds for NSS fit"]
\* the execution's promise rejects: the fault reaches the caller
Thrown == [kind |-> "thrown"]

\* the execution ends with value r after the D1 queries qs
Finish(r, qs) ==
    /\ pc' = "done"
    /\ result' = <<r>>
    /\ queries' = qs

\* secRow.InterestRate ?? 0
RateOrZero(secRow) == IF secRow.InterestRate = <<>> THEN RatInt(0) ELSE secRow.InterestRate[1]

(***************************************************************************)
(* calculateTreasuryAnalytics.  The two D1 reads and the classification    *)
(* are one step; the backward walk to the coupon bracket takes one step an *)
(* iteration.  failAt names the D1 query that fails (0: none).             *)
(***************************************************************************)
BillAnalytics(cusip, secRow, cleanPrice, settlementDate) ==
    [kind |-> "ok",
     cusip |-> cusip,
     settlementDate |-> toISOString(settlementDate)[1],
     maturityDate |-> secRow.MaturityDate,
     cleanPricePer100 |-> cleanPrice,
     accruedInterestPer100 |-> RatInt(0),
     dirtyPricePer100 |-> cleanPrice,
     f |-> RatInt(0),
     dayCountDetails |-> [isBill |-> TRUE, daysInPeriod |-> RatInt(0),
                          daysIntoPeriod |-> RatInt(0)]]

CTA_Start(cusip) ==
    /\ pc = "idle"
    /\ req' = [op |-> "calculateTreasuryAnalytics", cusip |-> cusip]
    /\ optimizerRuns' = 0
    /\ UNCHANGED <<harnessVars, dbVars, now>>
    /\ \E failAt \in 0 .. 2 :
          LET priceRow == priceTable[cusip]
              secRow == secTable[cusip][1]
              cleanPrice == priceRow[1]
              maturityDate == parseISODate(secRow.MaturityDate)
              annualCouponRate == RatDiv(RateOrZero(secRow), RatInt(100))
              freq == getFrequencyPerYear(secRow.SecurityType,
                                          secRow.InterestPaymentFrequency,
                                          RateOrZero(secRow))
              today == now
              settlementDate == nextBusinessDay(today)
          IN  IF failAt = 1
              THEN Finish(ErrInternal, <<"price failed">>) /\ frame' = <<>>
              ELSE IF priceRow = <<>>
              THEN Finish(ErrNoPrice(cusip), <<"price">>) /\ frame' = <<>>
              ELSE IF failAt = 2
              THEN Finish(ErrInternal, <<"price", "security failed">>) /\ frame' = <<>>
              ELSE IF secTable[cusip] = <<>>
              THEN Finish(ErrNoSecurity(cusip), <<"price", "security">>) /\ frame' = <<>>
              ELSE IF freq.isBill \/ freq.frequency = 0 \/ annualCouponRate = RatInt(0)
              THEN /\ Finish(BillAnalytics(cusip, secRow, cleanPrice, settlementDate),
                             <<"price", "security">>)
                   /\ frame' = [secRow |-> secRow, settlementDate |-> settlementDate]
              ELSE /\ pc' = "ctaWalk"
                   /\ result' = <<>>
                   /\ queries' = <<"price", "security">>
                   /\ frame' = [secRow |-> secRow,
                                cleanPrice |-> cleanPrice,
                                settlementDate |-> settlementDate,
                                couponPerPeriod |->
                                    RatDiv(RatMul(RatInt(faceValue), annualCouponRate),
                                           RatInt(freq.frequency)),
                                monthsPerPeriod |-> 12 \div freq.frequency,
                                current |-> maturityDate,
                                previous |-> <<>>]

\* the accrued interest reported but not added to the price
CouponAnalyticsCleanAsDirty(cusip, fr, last, next) ==
    LET daysInPeriod == daysBetween(last, next)
        daysIntoPeriod == daysBetween(last, fr.settlementDate)
        f == IF daysInPeriod = RatInt(0) THEN RatInt(0) ELSE RatDiv(daysIntoPeriod, daysInPeriod)
    IN  [kind |-> "ok",
         cusip |-> cusip,
         settlementDate |-> toISOString(fr.settlementDate)[1],
         maturityDate |-> fr.secRow.MaturityDate,
         couponPerPeriodPer100 |-> fr.couponPerPeriod,
         cleanPricePer100 |-> fr.cleanPrice,
         accruedInterestPer100 |-> RatMul(fr.couponPerPeriod, f),
         dirtyPricePer100 |-> fr.cleanPrice,
         f |-> f,
         dayCountDetails |-> [lastCouponDate |-> toISOString(last)[1],
                              nextCouponDate |-> toISOString(next)[1],
                              daysInPeriod |-> daysInPeriod,
                              daysIntoPeriod |-> daysIntoPeriod]]

\* lines 623-653: the result for the coupon bracket [last, next]
CouponAnalytics(cusip, fr, last, next) ==
    LET daysInPeriod == daysBetween(last, next)
        daysIntoPeriod == daysBetween(last, fr.settlementDate)
        f == IF daysInPeriod = RatInt(0) THEN RatInt(0) ELSE RatDiv(daysIntoPeriod, daysInPeriod)
        accruedInterestPer100 == RatMul(fr.couponPerPeriod, f)
        dirtyPricePer100 == RatAdd(fr.cleanPrice, accruedInterestPer100)
    IN  [kind |-> "ok",
         cusip |-> cusip,
         settlementDate |-> toISOString(fr.settlementDate)[1],
         maturityDate |-> fr.secRow.MaturityDate,
         couponPerPeriodPer100 |-> fr.couponPerPeriod,
         cleanPricePer100 |-> fr.cleanPrice,
         accruedInterestPer100 |-> accruedInterestPer100,
         dirtyPricePer100 |-> dirtyPricePer100,
         f |-> f,
         dayCountDetails |-> [lastCouponDate |-> toISOString(last)[1],
                              nextCouponDate |-> toISOString(next)[1],
                              daysInPeriod |-> daysInPeriod,
                              daysIntoPeriod |-> daysIntoPeriod]]

\* the bracket taken forward from the walk's current date instead of from `last`
BracketAroundCurrent(previous, current, settlementDate, monthsPerPeriod) ==
    [last |-> current, next |-> addMonthsEOM(current, monthsPerPeriod)]

\* lines 618-620: the bracket once the walk has stopped at `previous`
Bracket(previous, current, settlementDate, monthsPerPeriod) ==
    LET last == IF DateLE(previous, settlementDate) THEN previous ELSE current
    IN  [last |-> last, next |-> addMonthsEOM(last, monthsPerPeriod)]

\* lines 610-614 and 618-620: the head of one iteration of the walk back from
\* maturity: compute `previous`, then leave the loop or go on
CTA_WalkStep ==
    /\ pc = "ctaWalk"
    /\ UNCHANGED <<harnessVars, dbVars, now, req, optimizerRuns>>
    /\ LET previous == addMonthsEOM(frame.current, 0 - frame.monthsPerPeriod)
       IN  IF DateLE(previous, frame.settlementDate) \/ DateLE(previous, DateOf(1970, 0, 1))
           THEN LET b == Bracket(previous, frame.current, frame.settlementDate,
                                 frame.monthsPerPeriod)
                IN  /\ IF toISOString(b.last) = <<>> \/ toISOString(b.next) = <<>>
                       THEN Finish(ErrInternal, queries)
                       ELSE Finish(CouponAnalytics(req.cusip, frame, b.last, b.next), queries)
                    /\ frame' = [frame EXCEPT !.previous = <<previous>>]
           ELSE /\ pc' = "ctaAdvance"
                /\ frame' = [frame EXCEPT !.previous = <<previous>>]
                /\ UNCHANGED <<result, queries>>

\* line 615: `current = previous`, and round the loop again
CTA_WalkAdvance ==
    /\ pc = "ctaAdvance"
    /\ pc' = "ctaWalk"
    /\ frame' = [frame EXCEPT !.current = frame.previous[1]]
    /\ UNCHANGED <<harnessVars, dbVars, now, req, result, queries, optimizerRuns>>

(***************************************************************************)
(* NSS curve.  Math.exp(-x) is taken to first order, 1 - x cut off at 0,   *)
(* which keeps every price rational.  nelderMead is not among the source   *)
(* files: a fit is any point of NssGrid.  The squared errors (errorSquared,*)
(* sse, rmse) are derived outputs no step reads and are left out.          *)
(***************************************************************************)
ExpNeg(x) == IF RatLE(RatInt(1), x) THEN RatInt(0) ELSE RatSub(RatInt(1), x)

nssYield(tYears, params) ==
    IF RatLE(tYears, RatInt(0)) THEN params.beta0
    ELSE LET x1 == RatDiv(tYears, params.tau1)
             x2 == RatDiv(tYears, params.tau2)
             term1 == RatDiv(RatSub(RatInt(1), ExpNeg(x1)), x1)
             term2 == RatSub(term1, ExpNeg(x1))
             term3 == RatSub(RatDiv(RatSub(RatInt(1), ExpNeg(x2)), x2), ExpNeg(x2))
         IN  RatAdd(RatAdd(params.beta0, RatMul(params.beta1, term1)),
                    RatAdd(RatMul(params.beta2, term2), RatMul(params.beta3, term3)))

\* Math.exp(-y * t) at the curve's spot rate for t
DiscountFactor(tYears, params) == ExpNeg(RatMul(nssYield(tYears, params), tYears))

\* sum of cf.amount * df over the cashflows from index i on
RECURSIVE PresentValue(_, _, _)
PresentValue(cashflows, params, i) ==
    IF i > Len(cashflows) THEN RatInt(0)
    ELSE RatAdd(RatMul(cashflows[i].amount, DiscountFactor(cashflows[i].tYears, params)),
                PresentValue(cashflows, params, i + 1))

\* the order in which D1 returns the joined rows
CusipOrder == <<"c1", "c2">>

OptDate(s) == IF s = <<>> THEN <<>> ELSE <<parseISODate(s[1])>>

SecurityCashflows(secRow, frequencyPerYear) ==
    buildCashflowsForSecurity(
        [curveDate |-> CURVE_DATE,
         maturityDate |-> parseISODate(secRow.MaturityDate),
         interestRatePercent |-> secRow.InterestRate[1],
         frequencyPerYear |-> frequencyPerYear,
         datedDate |-> OptDate(secRow.DatedDate),
         firstInterestPaymentDate |-> OptDate(secRow.FirstInterestPaymentDate)])

\* lines 286-292: a bond is kept when its schedule is not empty
BondOf(c, price, cashflows) ==
    IF Len(cashflows) = 0 THEN <<>>
    ELSE <<[cusip |-> c, dirtyPrice |-> price, cashflows |-> cashflows]>>

\* lines 262-284: bills and zero-coupon rows are skipped
BondOfRow(c, price, r, freq) ==
    IF freq.isBill \/ freq.frequency = 0 \/ RateOrZero(r) = RatInt(0)
    THEN <<>>
    ELSE BondOf(c, price, SecurityCashflows(r, freq.frequency))

\* lines 224-261: the join of the two tables, rows with a positive rate only
BondOfJoin(c, prices, secs) ==
    IF \/ prices[c] = <<>>
       \/ secs[c] = <<>>
       \/ secs[c][1].InterestRate = <<>>
       \/ ~RatLT(RatInt(0), secs[c][1].InterestRate[1])
    THEN <<>>
    ELSE BondOfRow(c, prices[c][1], secs[c][1],
                   getFrequencyPerYear(secs[c][1].SecurityType,
                                       secs[c][1].InterestPaymentFrequency,
                                       RateOrZero(secs[c][1])))

\* lines 221-293: the bonds of the joined rows, from row i on
RECURSIVE buildCouponBonds(_, _, _)
buildCouponBonds(prices, secs, i) ==
    IF i > Len(CusipOrder) THEN <<>>
    ELSE BondOfJoin(CusipOrder[i], prices, secs) \o buildCouponBonds(prices, secs, i + 1)

\* the candidate fits: flat curves
NssGrid ==
    { [beta0 |-> b, beta1 |-> RatInt(0), beta2 |-> RatInt(0), beta3 |-> RatInt(0),
       tau1 |-> RatInt(1), tau2 |-> RatInt(3)] : b \in {RatInt(0), Rat(1, 25)} }

\* the optimizer run on whatever bonds there are, the empty universe included
calibrateWithoutUniverseCheck(bonds, x) ==
    [value |-> [kind |-> "ok", parameters |-> x, bondsUsed |-> Len(bonds)],
     optimizerRuns |-> 1]

\* lines 299-348, after the bonds are read; x is what nelderMead returns
calibrateNssFromDb(bonds, x) ==
    IF Len(bonds) = 0
    THEN [value |-> ErrNoBonds, optimizerRuns |-> 0]
    ELSE [value |-> [kind |-> "ok", parameters |-> x, bondsUsed |-> Len(bonds)],
          optimizerRuns |-> 1]

(***************************************************************************)
(* fitNssCurve, analyzeBondsWithNss, analyzeCusipWithNss.  None of them    *)
(* has a try/catch: a failing D1 query rejects the execution's promise.    *)
(***************************************************************************)
\* lines 663-667: the fit is the execution's result
FitReturned(fit) ==
    Finish(fit.value, <<"bonds">>) /\ optimizerRuns' = fit.optimizerRuns

FitNssCurve ==
    /\ pc = "idle"
    /\ req' = [op |-> "fitNssCurve"]
    /\ frame' = <<>>
    /\ UNCHANGED <<harnessVars, dbVars, now>>
    /\ \E fails \in BOOLEAN, x \in NssGrid :
          IF fails
          THEN Finish(Thrown, <<"bonds failed">>) /\ optimizerRuns' = 0
          ELSE FitReturned(calibrateNssFromDb(buildCouponBonds(priceTable, secTable, 1), x))

\* lines 673-675 and 752-754: return the failed fit or go on to the pricing step
FitThen(fit, nextPc) ==
    /\ optimizerRuns' = fit.optimizerRuns
    /\ IF fit.value.kind = "error"
       THEN Finish(fit.value, <<"bonds">>) /\ frame' = <<>>
       ELSE /\ pc' = nextPc
            /\ result' = <<>>
            /\ queries' = <<"bonds">>
            /\ frame' = [fitResult |-> fit.value]

\* lines 672 of analyzeBondsWithNss and 751 of analyzeCusipWithNss: calibrate
CalibrateThen(nextPc) ==
    \E fails \in BOOLEAN, x \in NssGrid :
        IF fails
        THEN Finish(Thrown, <<"bonds failed">>) /\ optimizerRuns' = 0 /\ frame' = <<>>
        ELSE FitThen(calibrateNssFromDb(buildCouponBonds(priceTable, secTable, 1), x), nextPc)

AB_Calibrate ==
    /\ pc = "idle"
    /\ req' = [op |-> "analyzeBondsWithNss"]
    /\ UNCHANGED <<harnessVars, dbVars, now>>
    /\ CalibrateThen("abReprice")

\* lines 700-719: one perBond entry
PerBondEntry(bond, params) ==
    LET nssPrice == PresentValue(bond.cashflows, params, 1)
    IN  [cusip |-> bond.cusip,
         dirtyPrice |-> bond.dirtyPrice,
         nssPrice |-> nssPrice,
         error |-> RatSub(bond.dirtyPrice, nssPrice)]

\* lines 700-742: the repriced bonds and the summary
RepriceResult(perBond, fitResult) ==
    [kind |-> "ok",
     curveDate |-> toISOString(CURVE_DATE)[1],
     nssParameters |-> fitResult.parameters,
     summary |-> [bondsAnalyzed |-> Len(perBond),
                  calibrationBondsUsed |-> fitResult.bondsUsed],
     perBond |-> perBond]

RepriceBonds(bonds, fitResult) ==
    RepriceResult([i \in 1 .. Len(bonds) |-> PerBondEntry(bonds[i], fitResult.parameters)],
                  fitResult)

\* lines 688-742: read the bonds again and reprice them
AB_Reprice ==
    /\ pc = "abReprice"
    /\ UNCHANGED <<harnessVars, dbVars, now, req, frame, optimizerRuns>>
    /\ \E fails \in BOOLEAN :
          IF fails
          THEN Finish(Thrown, <<"bonds", "bonds failed">>)
          ELSE Finish(RepriceBonds(buildCouponBonds(priceTable, secTable, 1), frame.fitResult),
                      <<"bonds", "bonds">>)

AC_Calibrate(cusip) ==
    /\ pc = "idle"
    /\ req' = [op |-> "analyzeCusipWithNss", cusip |-> cusip]
    /\ UNCHANGED <<harnessVars, dbVars, now>>
    /\ CalibrateThen("acPrice")

\* lines 836-859: a bill is one face-value cashflow at maturity
BillNssPrice(cusip, secRow, dirtyPrice, params) ==
    LET maturityDate == parseISODate(secRow.MaturityDate)
        tYears == RatDiv(daysBetween(CURVE_DATE, maturityDate), DAYS_IN_YEAR)
        theoreticalPrice == RatMul(RatInt(faceValue), DiscountFactor(tYears, params))
    IN  [kind |-> "ok",
         cusip |-> cusip,
         isBill |-> TRUE,
         nssParams |-> params,
         dirtyPricePer100 |-> dirtyPrice,
         theoreticalPricePer100 |-> theoreticalPrice,
         pricingError |-> RatSub(theoreticalPrice, dirtyPrice)]

\* lines 872-907: the discounted schedule and the result
PricedSchedule(cusip, cashflowsBasic, theoreticalPrice, dirtyPrice, params) ==
    [kind |-> "ok",
     cusip |-> cusip,
     nssParams |-> params,
     dirtyPricePer100 |-> dirtyPrice,
     theoreticalPricePer100 |-> theoreticalPrice,
     pricingError |-> RatSub(theoreticalPrice, dirtyPrice),
     cashflows |-> [i \in 1 .. Len(cashflowsBasic) |->
                      [date |-> toISOString(cashflowsBasic[i].date)[1],
                       tYears |-> cashflowsBasic[i].tYears,
                       amount |-> cashflowsBasic[i].amount,
                       presentValue |->
                           RatMul(cashflowsBasic[i].amount,
                                  DiscountFactor(cashflowsBasic[i].tYears, params))]]]

PriceSchedule(cusip, cashflowsBasic, dirtyPrice, params) ==
    PricedSchedule(cusip, cashflowsBasic, PresentValue(cashflowsBasic, params, 1),
                   dirtyPrice, params)

\* lines 861-907: a coupon security is its discounted schedule
CouponNssPrice(cusip, secRow, dirtyPrice, frequency, params) ==
    PriceSchedule(cusip, SecurityCashflows(secRow, frequency), dirtyPrice, params)

\* lines 759-907: the two row reads and the pricing; failAt names the D1
\* query that fails (0: none)
AC_Price ==
    /\ pc = "acPrice"
    /\ UNCHANGED <<harnessVars, dbVars, now, req, frame, optimizerRuns>>
    /\ \E failAt \in 0 .. 2 :
          LET cusip == req.cusip
              params == frame.fitResult.parameters
              priceRow == priceTable[cusip]
              secRow == secTable[cusip][1]
              dirtyPrice == priceRow[1]
              annualCoupon == RatDiv(RateOrZero(secRow), RatInt(100))
              freq == getFrequencyPerYear(secRow.SecurityType,
                                          secRow.InterestPaymentFrequency,
                                          RateOrZero(secRow))
          IN  IF failAt = 1
              THEN Finish(Thrown, <<"bonds", "price failed">>)
              ELSE IF priceRow = <<>>
              THEN Finish(ErrNoPrice(cusip), <<"bonds", "price">>)
              ELSE IF failAt = 2
              THEN Finish(Thrown, <<"bonds", "price", "security failed">>)
              ELSE IF secTable[cusip] = <<>>
              THEN Finish(ErrNoSecurity(cusip), <<"bonds", "price", "security">>)
              ELSE IF freq.isBill \/ freq.frequency = 0 \/ annualCoupon = RatInt(0)
              THEN Finish(BillNssPrice(cusip, secRow, dirtyPrice, params),
                          <<"bonds", "price", "security">>)
              ELSE Finish(CouponNssPrice(cusip, secRow, dirtyPrice, freq.frequency, params),
                          <<"bonds", "price", "security">>)

(***************************************************************************)
(* The environment: the clock, another writer of the data store, and the   *)
(* caller taking the result.                                               *)
(***************************************************************************)
ClockStart == CURVE_DATE

Tick ==
    /\ now < ClockStart + MaxClock
    /\ now' = now + 1
    /\ UNCHANGED <<harnessVars, dbVars, pc, req, frame, result, queries, optimizerRuns>>

\* the price loader inserts, replaces or deletes the price row of a CUSIP
DbWrite ==
    /\ \E c \in Cusips, row \in PriceRows :
          /\ row # priceTable[c]
          /\ priceTable' = [priceTable EXCEPT ![c] = row]
    /\ UNCHANGED <<harnessVars, secTable, now, pc, req, frame, result, queries, optimizerRuns>>

Respond ==
    /\ pc = "done"
    /\ pc' = "idle"
    /\ req' = <<>>
    /\ frame' = <<>>
    /\ result' = <<>>
    /\ queries' = <<>>
    /\ optimizerRuns' = 0
    /\ UNCHANGED <<harnessVars, dbVars, now>>

Init ==
    /\ HarnessIdle
    /\ priceTable \in [Cusips -> PriceRows]
    /\ secTable \in [Cusips -> SecRows]
    /\ now = ClockStart
    /\ pc = "idle"
    /\ req = <<>>
    /\ frame = <<>>
    /\ result = <<>>
    /\ queries = <<>>
    /\ optimizerRuns = 0

Next ==
    \/ Tick
    \/ DbWrite
    \/ Respond
    \/ \E cusip \in Cusips : CTA_Start(cusip)
    \/ CTA_WalkStep
    \/ CTA_WalkAdvance
    \/ FitNssCurve
    \/ AB_Calibrate
    \/ AB_Reprice
    \/ \E cusip \in Cusips : AC_Calibrate(cusip)
    \/ AC_Price

Spec == Init /\ [][Next]_vars

(***************************************************************************)
(* calculateTreasuryAnalytics over a wide range of maturities and clocks.  *)
(***************************************************************************)
BracketMaturities ==
    { ISO(c[1], c[2] + 1, c[3]) :
        c \in { x \in ValidYMD : x[1] >= CurveYear /\ x[3] \in ScheduleDays } }

BracketClocks ==
    { DateOf(CurveYear, CurveMonth, 10) + k : k \in 0 .. (BracketDays * TicksPerDay - 1) }

InitBracket ==
    /\ HarnessIdle
    /\ priceTable = [c \in Cusips |-> IF c = "c1" THEN <<Rat(197, 2)>> ELSE <<>>]
    /\ \E mat \in BracketMaturities, freq \in {TxtSemi, TxtQuarterly, TxtAnnual},
          dated \in {ISO(CurveYear - 1, 8, 15), ISO(CurveYear, CurveMonth + 1, 14)} :
          secTable = [c \in Cusips |->
                        IF c = "c1"
                        THEN <<SecRow(TxtNote, freq, <<RatInt(4)>>, mat, <<dated>>, <<>>)>>
                        ELSE <<>>]
    /\ now \in BracketClocks
    /\ pc = "idle"
    /\ req = <<>>
    /\ frame = <<>>
    /\ result = <<>>
    /\ queries = <<>>
    /\ optimizerRuns = 0

NextBracket ==
    \/ \E cusip \in Cusips : CTA_Start(cusip)
    \/ CTA_WalkStep
    \/ CTA_WalkAdvance

SpecBracket == InitBracket /\ [][NextBracket]_vars

(***************************************************************************)
(* calculateTreasuryAnalytics calls over any data store, with the          *)
(* synchronous loop running on: a JavaScript loop that has begun an        *)
(* iteration completes it.  CTA_WalkStep is enabled exactly when pc is     *)
(* "ctaWalk" and every step of it leaves that position, so weak fairness   *)
(* of CTA_WalkStep is that the execution is not at "ctaWalk" forever.      *)
(***************************************************************************)
SpecFair ==
    /\ Init
    /\ [][NextBracket]_vars
    /\ []<>(pc # "ctaWalk")
    /\ WF_vars(CTA_WalkAdvance)

(***************************************************************************)
(* One caller asking calculateTreasuryAnalytics twice over an unchanged    *)
(* data store: call and ret hold the first call and its answer.            *)
(***************************************************************************)
KeepAnswer ==
    /\ pc = "done"
    /\ req.op = "calculateTreasuryAnalytics"
    /\ call.fn = "none"
    /\ call' = [fn |-> req.op, cusip |-> req.cusip]
    /\ ret' = result
    /\ pc' = "idle"
    /\ req' = <<>>
    /\ frame' = <<>>
    /\ result' = <<>>
    /\ queries' = <<>>
    /\ UNCHANGED <<dbVars, now, optimizerRuns>>

NextRepeat ==
    \/ Tick
    \/ KeepAnswer
    \/ \E cusip \in Cusips : CTA_Start(cusip)
    \/ CTA_WalkStep
    \/ CTA_WalkAdvance

SpecRepeat == Init /\ [][NextRepeat]_vars

\* the last calendar day of the month lying `months` months after month m of year y
LastDayOfMonth(y, m) == DateOf(y, m + 1, 0)

IsLastDayOfMonth(t) == getDate(t) = MonthLengths(getFullYear(t))[getMonth(t) + 1]

\* C4: addMonthsEOM of a date that is the last calendar day of its month returns
\* the last calendar day of the month exactly `months` months after the source
\* month, for every positive or negative number of months.
C4_EndOfMonthPreserved ==
    (call.fn = "addMonthsEOM" /\ ret # <<>> /\ IsLastDayOfMonth(call.d))
        => ret[1] = LastDayOfMonth(getFullYear(call.d), getMonth(call.d) + call.months)

\* C5: stepping Feb 28, 2023 forward 12 months yields Feb 28, 2024, and stepping
\* Feb 29, 2024 forward 12 months yields Feb 28, 2025.
C5_FebruarySteps ==
    (call.fn = "addMonthsEOM" /\ ret # <<>> /\ call.months = 12)
        => /\ call.d = DateOf(2023, 1, 28) => ret[1] = DateOf(2024, 1, 28)
           /\ call.d = DateOf(2024, 1, 29) => ret[1] = DateOf(2025, 1, 28)

CashflowsReturned == call.fn = "buildCashflowsForSecurity" /\ ret # <<>>

\* C1: the final cashflow of every non-empty schedule has amount
\* couponPerPeriod + 100 (it includes the face value).
C1_FinalIncludesFace ==
    (CashflowsReturned /\ ret[1] # <<>>)
        => ret[1][Len(ret[1])].amount =
              RatAdd(CouponPerPeriod(call.interestRatePercent, call.frequencyPerYear),
                     RatInt(100))

\* C2: every emitted cashflow date is strictly after the curve date and on or
\* before maturity, and the emitted dates are strictly ascending.
C2_DatesInWindowAscending ==
    CashflowsReturned =>
        /\ \A i \in 1 .. Len(ret[1]) :
              ret[1][i].date > call.curveDate /\ ret[1][i].date <= call.maturityDate
        /\ \A i \in 1 .. (Len(ret[1]) - 1) : ret[1][i].date < ret[1][i + 1].date

\* a schedule of several cashflows whose first coupon date lies before the curve date
C2_Witness ==
    /\ CashflowsReturned
    /\ Len(ret[1]) >= 3
    /\ call.firstInterestPaymentDate # <<>>
    /\ call.firstInterestPaymentDate[1] < call.curveDate
    /\ ret[1][Len(ret[1])].date = call.maturityDate

CTADone == pc = "done" /\ req.op = "calculateTreasuryAnalytics"

IsCouponResult(r) == r.kind = "ok" /\ "couponPerPeriodPer100" \in DOMAIN r

\* the settlement instant lies between the dated date and the maturity date
SettlementInLife ==
    /\ frame.secRow.DatedDate # <<>>
    /\ DateLE(parseISODate(frame.secRow.DatedDate[1]), frame.settlementDate)
    /\ DateLE(frame.settlementDate, parseISODate(frame.secRow.MaturityDate))

ClassifiedAsBill(secRow) ==
    LET freq == getFrequencyPerYear(secRow.SecurityType, secRow.InterestPaymentFrequency,
                                    RateOrZero(secRow))
    IN  freq.isBill \/ freq.frequency = 0 \/ RateOrZero(secRow) = RatInt(0)

C7_NoThrownFault == pc = "done" => result[1].kind # "thrown"

NssOps == {"fitNssCurve", "analyzeBondsWithNss", "analyzeCusipWithNss"}

\* C8: when the bonds query returns and no security passes the universe filter,
\* calibration returns the tagged error without invoking the optimizer, and
\* analyzeBondsWithNss and analyzeCusipWithNss return that error in the same
\* step, without going on to read or price anything.
C8_EmptyUniverseNoFit ==
    [][ (/\ pc = "idle" /\ pc' # "idle"
         /\ req'.op \in NssOps
         /\ queries' = <<"bonds">>
         /\ buildCouponBonds(priceTable, secTable, 1) = <<>>)
        => /\ pc' = "done"
           /\ result' = <<[kind |-> "error", error |-> "no bonds for NSS fit"]>>
           /\ optimizerRuns' = 0 ]_vars

\* analyzeBondsWithNss over a store that holds priced securities, none usable
C8_Witness ==
    /\ pc = "done"
    /\ req.op = "analyzeBondsWithNss"
    /\ result = <<ErrNoBonds>>
    /\ optimizerRuns = 0
    /\ \A c \in Cusips : priceTable[c] # <<>> /\ secTable[c] # <<>>

\* C9: calculateTreasuryAnalytics never throws; when its queries return and the
\* price row is missing it returns the 'no price record' error after the price
\* query alone, and when only the security row is missing the 'no security
\* record' error; neither case computes analytics.
C9_NotFound ==
    [][ (pc = "idle" /\ pc' # "idle" /\ req'.op = "calculateTreasuryAnalytics")
        => /\ result' # <<[kind |-> "thrown"]>>
           /\ (\A i \in 1 .. Len(queries') : queries'[i] \in {"price", "security"})
                => LET c == req'.cusip
                   IN  /\ priceTable[c] = <<>>
                             => /\ pc' = "done"
                                /\ result' = <<[kind |-> "error", error |-> "no price record",
                                                cusip |-> c]>>
                                /\ queries' = <<"price">>
                       /\ (priceTable[c] # <<>> /\ secTable[c] = <<>>)
                             => /\ pc' = "done"
                                /\ result' = <<[kind |-> "error",
                                                error |-> "no security record", cusip |-> c]>>
                                /\ queries' = <<"price", "security">> ]_vars

\* a price row without its security row
C9_Witness ==
    /\ CTADone
    /\ result = <<ErrNoSecurity(req.cusip)>>
    /\ queries = <<"price", "security">>
    /\ priceTable[req.cusip] # <<>>
    /\ secTable[req.cusip] = <<>>

\* C10: every pricing error reported by analyzeBondsWithNss (each perBond
\* entry) and analyzeCusipWithNss equals theoretical NSS price minus dirty price.
C10_ErrorIsTheoreticalMinusDirty ==
    (pc = "done" /\ result[1].kind = "ok")
        => /\ req.op = "analyzeBondsWithNss"
                => \A i \in 1 .. Len(result[1].perBond) :
                      LET e == result[1].perBond[i]
                      IN  e.error = RatSub(e.nssPrice, e.dirtyPrice)
           /\ req.op = "analyzeCusipWithNss"
                => result[1].pricingError =
                      RatSub(result[1].theoreticalPricePer100, result[1].dirtyPricePer100)

\* the character c with an upper-case ASCII letter folded to lower case
Folded(c) == IF c \in DOMAIN UpperToLower THEN UpperToLower[c] ELSE c

\* text s contains the lower-case pattern sub, letter case ignored
ContainsIgnoringCase(s, sub) ==
    \E i \in 0 .. (Len(s) - Len(sub)) : \A k \in 1 .. Len(sub) : Folded(s[i + k]) = sub[k]

\* the rule table of the classification, in precedence order
ClassifiedFrequency(type, text, rate) ==
    IF \/ ContainsIgnoringCase(type, <<"b", "i", "l", "l">>)
       \/ ContainsIgnoringCase(text, <<"n", "o", "n", "e">>)
       \/ rate = RatInt(0)
    THEN 0
    ELSE IF ContainsIgnoringCase(text, <<"s", "e", "m", "i">>) THEN 2
    ELSE IF ContainsIgnoringCase(text, <<"q", "u", "a", "r", "t", "e", "r">>) THEN 4
    ELSE IF \/ ContainsIgnoringCase(text, <<"a", "n", "n", "u", "a", "l">>)
            \/ ContainsIgnoringCase(text, <<"y", "e", "a", "r">>)
    THEN 1
    ELSE 2

FrequencyReturned == call.fn = "getFrequencyPerYear" /\ ret # <<>>

\* C11: getFrequencyPerYear applies its rules in precedence order (bill / none /
\* zero rate first, then semi, quarter, annual or year, then the default 2),
\* ignoring letter case; the frequency is one of 0, 1, 2, 4 and isBill is true
\* exactly when the frequency is 0.
C11_FrequencyPrecedence ==
    FrequencyReturned =>
        /\ ret[1].frequency =
              ClassifiedFrequency(call.securityType, call.InterestPaymentFrequency,
                                  call.interestRate)
        /\ ret[1].frequency \in {0, 1, 2, 4}
        /\ ret[1].isBill <=> ret[1].frequency = 0

\* an upper-case "SEMI-ANNUAL" note with a coupon is classified as 2 a year
C11_Witness ==
    /\ FrequencyReturned
    /\ call.securityType = <<"N", "O", "T", "E">>
    /\ call.InterestPaymentFrequency =
          <<"S", "E", "M", "I", "-", "A", "N", "N", "U", "A", "L">>
    /\ call.interestRate # RatInt(0)
    /\ ret[1] = [frequency |-> 2, isBill |-> FALSE]

BusinessDayReturned == call.fn = "nextBusinessDay" /\ ret # <<>>

\* C12: nextBusinessDay(d) is the earliest Monday-to-Friday date strictly
\* after d: never a Saturday or Sunday, every day skipped is a Saturday or a
\* Sunday, and a Friday and a Saturday both map to the following Monday.
C12_NextBusinessDay ==
    BusinessDayReturned =>
        /\ DayOf(ret[1]) > DayOf(call.d)
        /\ TimeOfDay(ret[1]) = TimeOfDay(call.d)
        /\ getDay(ret[1]) \in 1 .. 5
        /\ \A n \in (DayOf(call.d) + 1) .. (DayOf(ret[1]) - 1) : (n + 4) % 7 \in {0, 6}
        /\ getDay(call.d) = 5 => getDay(ret[1]) = 1 /\ DayOf(ret[1]) = DayOf(call.d) + 3
        /\ getDay(call.d) = 6 => getDay(ret[1]) = 1 /\ DayOf(ret[1]) = DayOf(call.d) + 2

\* a Friday afternoon stepped to the Monday after it
C12_Witness ==
    /\ BusinessDayReturned
    /\ getDay(call.d) = 5
    /\ TimeOfDay(call.d) # 0
    /\ ret[1] = call.d + 3 * TicksPerDay


\* months counted from year 0, for comparing calendar months
MonthIndex(t) == getFullYear(t) * 12 + getMonth(t)

\* C15: addMonthsEOM(date, months) lands in the calendar month exactly `months`
\* months after the source month, and a source date that is not the last day
\* of its month keeps its day of month.
C15_WholeMonths ==
    (call.fn = "addMonthsEOM" /\ ret # <<>>)
        => /\ MonthIndex(ret[1]) = MonthIndex(call.d) + call.months
           /\ ~IsLastDayOfMonth(call.d) => getDate(ret[1]) = getDate(call.d)

\* C16: a successful analyzeBondsWithNss result reprices exactly as many bonds
\* as the curve was calibrated on, whatever another writer does to the data
\* store between the two reads.
C16_RepricedIsCalibrated ==
    (pc = "done" /\ req.op = "analyzeBondsWithNss" /\ result[1].kind = "ok")
        => result[1].summary.bondsAnalyzed = result[1].summary.calibrationBondsUsed

\* C13: two calls of calculateTreasuryAnalytics with the same CUSIP against the
\* same data-store contents return identical results, whenever each call runs
\* (stated for two calls whose queries both succeed).
C13_SameAnswerAnyTime ==
    (/\ pc = "done"
     /\ req.op = "calculateTreasuryAnalytics"
     /\ call.fn = "calculateTreasuryAnalytics"
     /\ call.cusip = req.cusip
     /\ ret[1].kind = "ok"
     /\ result[1].kind = "ok")
        => result = ret

\* C14: every calculateTreasuryAnalytics call that has entered the backward
\* coupon-bracket walk eventually returns a result or a tagged error.
C14_EventuallyReturns == (pc \in {"ctaWalk", "ctaAdvance"}) ~> (pc = "done")

====
